---- MODULE Spec2Model ----
(***************************************************************************)
(* A model of the simple ASGI web server: the HTTP exchange (the receive   *)
(* and send closures of src/server.py and of "src/2 websocket/server.py"), *)
(* the WebSocket exchange of "src/2 websocket/server.py", the connection   *)
(* handler from the request bytes to the application call, and the frame   *)
(* codec, each bound to one asyncio stream (a StreamReader and a           *)
(* StreamWriter).                                                          *)
(*                                                                         *)
(* Byte strings that the code treats as text (status lines, header lines,  *)
(* HTTP bodies) are strings; WebSocket frame bytes are sequences of        *)
(* integers 0..255.                                                        *)
(***************************************************************************)
EXTENDS Integers, Sequences, FiniteSets, TLC

VARIABLES
    impl,              \* which source file's handler runs this connection
    scope,             \* the scope build_scope returned
    inflight,          \* bytes the client has sent that the reader has not buffered yet
    reader,            \* the StreamReader: [buf, eof]
    writer,            \* the StreamWriter: [wire, closed, close_calls, lost]
    response_headers,  \* http_handler's buffered header block (a list of byte strings)
    connect_sent,      \* websocket_handler: the connect event was handed out
    receive_call,      \* the websocket receive() call in progress and the frames it read
    fragmented_payload,\* websocket_handler: the message being reassembled (a dict)
    sent,              \* history: every event the application passed to send, with its outcome
    received,          \* history: every outcome of the application's receive calls
    conn,              \* handler(): where the connection's handler call stands
    codec              \* a message, the frame built from it and what reading that frame gave

vars == <<impl, scope, inflight, reader, writer, response_headers,
          connect_sent, fragmented_payload, receive_call, sent, received, conn, codec>>

ws_vars == <<connect_sent, fragmented_payload, receive_call>>

\* the handler call and the frame codec, where an exchange is looked at alone
InExchange == [pc |-> "app"]

NoCodec == [pc |-> "none"]

other_vars == <<conn, codec>>

(***************************************************************************)
(* Bounds of the model.                                                    *)
(***************************************************************************)
MaxSends == 3
MaxReceives == 2
MaxBody == 2
MaxFrames == 3
MaxWsReceives == 4
MaxAppSends == 2

(***************************************************************************)
(* asyncio.StreamWriter, as the code uses it.  write() hands the data to   *)
(* the transport, which transmits it; once the transport is closed it      *)
(* discards the data instead (and counts the call).  drain() raises        *)
(* ConnectionResetError once the connection is lost, which is the case     *)
(* after close() followed by wait_closed().                                *)
(*                                                                         *)
(* A chunk of written data: Text(s) for bytes modelled as a string,        *)
(* Bytes(b) for bytes modelled as a sequence of integers.                  *)
(***************************************************************************)
Text(s) == [text |-> s]

Bytes(b) == [bytes |-> b]

IsText(c) == "text" \in DOMAIN c

ChunkLen(c) == IF IsText(c) THEN Len(c.text) ELSE Len(c.bytes)

NewWriter == [wire |-> <<>>, closed |-> FALSE, close_calls |-> 0, lost |-> <<>>]

WriterWrite(w, data) ==
    IF ChunkLen(data) = 0 THEN w
    ELSE IF w.closed THEN [w EXCEPT !.lost = Append(@, data)]
    ELSE [w EXCEPT !.wire = Append(@, data)]

RECURSIVE WriterWritelines(_, _)
WriterWritelines(w, lines) ==
    IF lines = <<>> THEN w
    ELSE WriterWritelines(WriterWrite(w, Head(lines)), Tail(lines))

DrainRaises(w) == w.closed

WriterClose(w) == [w EXCEPT !.closed = TRUE, !.close_calls = @ + 1]

(***************************************************************************)
(* asyncio.StreamReader.read(n): b"" at once when n = 0; otherwise it      *)
(* waits until the buffer holds at least one byte or EOF was fed, and      *)
(* returns at most n of the buffered bytes.                                *)
(***************************************************************************)
Min(a, b) == IF a < b THEN a ELSE b

ReadReady(r, n) == n = 0 \/ Len(r.buf) > 0 \/ r.eof

ReadData(r, n) == SubSeq(r.buf, 1, Min(n, Len(r.buf)))

ReadRest(r, n) == [r EXCEPT !.buf = SubSeq(@, Min(n, Len(@)) + 1, Len(@))]

(***************************************************************************)
(* The scope.  headers is the ordered list of <<lower-cased name, value>>  *)
(* pairs; "server.dict_headers" (src/2 websocket/server.py) is the dict    *)
(* built beside it, in which a later occurrence of a name replaces an      *)
(* earlier one.                                                            *)
(***************************************************************************)
dict_headers(headers) ==
    [k \in {headers[i][1] : i \in DOMAIN headers} |->
        LET last == CHOOSE i \in DOMAIN headers :
                        /\ headers[i][1] = k
                        /\ \A j \in DOMAIN headers : headers[j][1] = k => j <= i
        IN  headers[last][2]]

\* int(value) on the decimal strings the model's requests carry
IntOf == [s \in {"0", "1", "2", "3"} |->
            CASE s = "0" -> 0 [] s = "1" -> 1 [] s = "2" -> 2 [] s = "3" -> 3]

\* src/server.py: the first content-length header of the list, 0 without one
get_content_length(sc) ==
    LET hits == {i \in DOMAIN sc.headers : sc.headers[i][1] = "content-length"}
    IN  IF hits = {} THEN 0
        ELSE IntOf[sc.headers[CHOOSE i \in hits : \A j \in hits : i <= j][2]]

\* src/2 websocket/server.py: int(dict_headers.get("content-length", 0))
dict_content_length(sc) ==
    LET d == dict_headers(sc.headers)
    IN  IF "content-length" \in DOMAIN d THEN IntOf[d["content-length"]] ELSE 0

content_length(sc) ==
    IF impl = "server" THEN get_content_length(sc) ELSE dict_content_length(sc)

(***************************************************************************)
(* build_http_headers: the status line, one line per header, an empty      *)
(* line.  HTTPStatus(status) raises ValueError for a status it does not    *)
(* know.                                                                   *)
(***************************************************************************)
HTTPStatus == (200 :> "OK") @@ (404 :> "Not Found")

status_line(sc, event) ==
    "HTTP/" \o sc.http_version \o " " \o ToString(event.status) \o " "
        \o HTTPStatus[event.status] \o "\r\n"

RECURSIVE header_lines(_)
header_lines(hs) ==
    IF hs = <<>> THEN <<>>
    ELSE <<Text(Head(hs)[1] \o ": " \o Head(hs)[2]), Text("\r\n")>>
            \o header_lines(Tail(hs))

build_http_headers(sc, event) ==
    <<Text(status_line(sc, event))>> \o header_lines(event.headers) \o <<Text("\r\n")>>

(***************************************************************************)
(* http_handler.send.  A step yields the new header buffer, the new writer *)
(* and how the call ended ("ok" or the exception raised).                  *)
(***************************************************************************)
MoreBody(event) == IF "more_body" \in DOMAIN event THEN event.more_body ELSE FALSE

\* mutant: ResponseStart writes the header block at once
send_start_eager(rh, w, event) ==
    IF event.status \in DOMAIN HTTPStatus
    THEN [rh |-> <<>>, w |-> WriterWritelines(w, build_http_headers(scope, event)),
          out |-> "ok"]
    ELSE [rh |-> rh, w |-> w, out |-> "ValueError"]

send_start(rh, w, event) ==
    IF event.status \in DOMAIN HTTPStatus
    THEN [rh |-> build_http_headers(scope, event), w |-> w, out |-> "ok"]
    ELSE [rh |-> rh, w |-> w, out |-> "ValueError"]

\* mutant: the header buffer survives the flush
flushed_headers_kept(rh) == rh

flushed_headers(rh) == <<>>

close_after(event) == MoreBody(event) = FALSE

send_body(rh, w, event) ==
    LET w1 == IF rh # <<>> THEN WriterWritelines(w, rh) ELSE w
        rh1 == IF rh # <<>> THEN flushed_headers(rh) ELSE rh
        w2 == WriterWrite(w1, Text(event.body))
    IN  IF DrainRaises(w2)
        THEN [rh |-> rh1, w |-> w2, out |-> "ConnectionResetError"]
        ELSE IF close_after(event)
        THEN [rh |-> rh1, w |-> WriterClose(w2), out |-> "ok"]
        ELSE [rh |-> rh1, w |-> w2, out |-> "ok"]

http_send(rh, w, event) ==
    IF event.type = "http.response.start" THEN send_start(rh, w, event)
    ELSE IF event.type = "http.response.body" THEN send_body(rh, w, event)
    ELSE [rh |-> rh, w |-> w, out |-> "ok"]

(***************************************************************************)
(* The events an application may pass to send on an HTTP connection.       *)
(***************************************************************************)
ResponseStarts ==
    { [type |-> "http.response.start", status |-> 200,
       headers |-> <<<<"a", "1">>, <<"b", "2">>>>],
      [type |-> "http.response.start", status |-> 404, headers |-> <<>>],
      [type |-> "http.response.start", status |-> 299, headers |-> <<>>] }

ResponseBodies ==
    { [type |-> "http.response.body", body |-> "p", more_body |-> TRUE],
      [type |-> "http.response.body", body |-> "q", more_body |-> TRUE],
      [type |-> "http.response.body", body |-> "p", more_body |-> FALSE],
      [type |-> "http.response.body", body |-> "", more_body |-> FALSE],
      [type |-> "http.response.body", body |-> "q"] }

HttpEvents == ResponseStarts \cup ResponseBodies \cup {[type |-> "http.disconnect"]}

(***************************************************************************)
(* The requests: the scopes build_scope can return for an HTTP request,    *)
(* and the body bytes the client sends after the header block.             *)
(***************************************************************************)
HeaderLists ==
    { <<>>,
      <<<<"host", "h">>, <<"content-length", "2">>>>,
      <<<<"content-length", "1">>, <<"content-length", "2">>>> }

HttpScopes ==
    [type : {"http"}, http_version : {"1.0", "1.1"}, method : {"POST"},
     headers : HeaderLists]

BodyBytes == "abc"

HttpInit ==
    /\ impl \in {"server", "websocket"}
    /\ scope \in HttpScopes
    /\ \E n \in 0..MaxBody : inflight = SubSeq(BodyBytes, 1, n)
    /\ reader = [buf |-> "", eof |-> FALSE]
    /\ writer = NewWriter
    /\ response_headers = <<>>
    /\ connect_sent = FALSE
    /\ fragmented_payload = <<>>
    /\ receive_call = [active |-> FALSE, frames |-> <<>>]
    /\ sent = <<>>
    /\ received = <<>>
    /\ conn = InExchange
    /\ codec = NoCodec

\* the application calls send(event)
HttpSend ==
    /\ Len(sent) < MaxSends
    /\ \E event \in HttpEvents :
        LET r == http_send(response_headers, writer, event)
        IN  /\ response_headers' = r.rh
            /\ writer' = r.w
            /\ sent' = Append(sent, [event |-> event, out |-> r.out])
            \* close() ends the reading side too: connection_lost feeds EOF
            /\ reader' = IF r.w.closed THEN [reader EXCEPT !.eof = TRUE] ELSE reader
    /\ UNCHANGED <<impl, scope, inflight, received, ws_vars>>
    /\ UNCHANGED other_vars

\* the application calls receive(), which returns once read() can
HttpReceive ==
    /\ Len(received) < MaxReceives
    /\ LET n == content_length(scope)
       IN  /\ ReadReady(reader, n)
           /\ received' = Append(received,
                  [type |-> "http.request", body |-> ReadData(reader, n),
                   more_body |-> FALSE])
           /\ reader' = ReadRest(reader, n)
    /\ UNCHANGED <<impl, scope, inflight, writer, response_headers, sent, ws_vars>>
    /\ UNCHANGED other_vars

\* the transport delivers the next k bytes of the request body to the reader
Deliver ==
    /\ ~writer.closed
    /\ ~reader.eof
    /\ \E k \in 1..Len(inflight) :
        /\ reader' = [reader EXCEPT !.buf = @ \o SubSeq(inflight, 1, k)]
        /\ inflight' = SubSeq(inflight, k + 1, Len(inflight))
    /\ UNCHANGED <<impl, scope, writer, response_headers, sent, received, ws_vars>>
    /\ UNCHANGED other_vars

\* the client closes its side after its last byte
ClientEof ==
    /\ ~reader.eof
    /\ Len(inflight) = 0
    /\ reader' = [reader EXCEPT !.eof = TRUE]
    /\ UNCHANGED <<impl, scope, inflight, writer, response_headers, sent, received, ws_vars>>
    /\ UNCHANGED other_vars

HttpNext == HttpSend \/ HttpReceive \/ Deliver \/ ClientEof

SpecHttp == HttpInit /\ [][HttpNext]_vars

(***************************************************************************)
(* Reading the histories.                                                  *)
(***************************************************************************)
RECURSIVE WireText(_)
WireText(chunks) ==
    IF chunks = <<>> THEN "" ELSE Head(chunks).text \o WireText(Tail(chunks))

IsStart(i) == sent[i].event.type = "http.response.start"

IsBody(i) == sent[i].event.type = "http.response.body"

\* the body events sent so far, and the first of them
BodyIdx == {i \in DOMAIN sent : IsBody(i)}

FirstBody == CHOOSE i \in BodyIdx : \A j \in BodyIdx : i <= j

\* the ResponseStart events send accepted before position i, and the text of
\* the header block buffered at that point
StartsBefore(i) == {j \in 1..(i - 1) : IsStart(j) /\ sent[j].out = "ok"}

BufferedBefore(i) ==
    IF StartsBefore(i) = {} THEN ""
    ELSE LET j == CHOOSE k \in StartsBefore(i) : \A l \in StartsBefore(i) : l <= k
         IN  WireText(build_http_headers(scope, sent[j].event))

RECURSIVE BodyText(_, _)
BodyText(from, to) ==
    IF from > to THEN "" ELSE sent[from].event.body \o BodyText(from + 1, to)

\* sent begins with an accepted ResponseStart followed by body events up to
\* position m, each with more_body true except, when last is set, the m-th
StartThenBodies(m, last) ==
    /\ 2 <= m /\ m <= Len(sent)
    /\ IsStart(1) /\ sent[1].out = "ok"
    /\ \A i \in 2..m : IsBody(i)
    /\ \A i \in 2..(m - 1) : MoreBody(sent[i].event)
    /\ MoreBody(sent[m].event) = ~last

(***************************************************************************)
(* C1.  A ResponseStart writes nothing: until the first ResponseBody event *)
(* is sent the wire is empty and the stream is open; the first body event  *)
(* puts the buffered status line and headers on the wire, followed by      *)
(* that body's bytes.                                                      *)
(***************************************************************************)
C1_HeadersFlushedOnFirstBody ==
    IF BodyIdx = {}
    THEN /\ writer.wire = <<>>
         /\ ~writer.closed
         /\ writer.close_calls = 0
    ELSE LET first == BufferedBefore(FirstBody) \o sent[FirstBody].event.body
         IN  SubSeq(WireText(writer.wire), 1, Len(first)) = first

C1_Witness ==
    /\ Len(sent) = 2
    /\ IsStart(1) /\ sent[1].event.status = 200
    /\ IsBody(2) /\ sent[2].event.body = "p"
    /\ WireText(writer.wire) = "HTTP/1.1 200 OK\r\na: 1\r\nb: 2\r\n\r\np"

(***************************************************************************)
(* C2.  After ResponseStart and one or more ResponseBody events of which   *)
(* only the last has more_body false, the wire holds the status line and   *)
(* header block once, then the bodies in the order sent, whatever is sent  *)
(* afterwards; the stream is closed by the last of these body events and   *)
(* is open before it.                                                      *)
(***************************************************************************)
C2_HeadersOnceBodiesInOrder ==
    \A m \in 2..Len(sent) :
        /\ StartThenBodies(m, TRUE) =>
              /\ WireText(writer.wire)
                    = WireText(build_http_headers(scope, sent[1].event)) \o BodyText(2, m)
              /\ writer.closed
              /\ writer.close_calls = 1
        /\ (m = Len(sent) /\ StartThenBodies(m, FALSE)) =>
              /\ WireText(writer.wire)
                    = WireText(build_http_headers(scope, sent[1].event)) \o BodyText(2, m)
              /\ ~writer.closed
              /\ writer.close_calls = 0

C2_Witness ==
    /\ Len(sent) = 3
    /\ StartThenBodies(3, TRUE)
    /\ sent[1].event.status = 200
    /\ WireText(writer.wire) = "HTTP/1.0 200 OK\r\na: 1\r\nb: 2\r\n\r\nqp"
    /\ writer.closed

(***************************************************************************)
(* C3.  The stream is closed exactly once, at the first ResponseBody event *)
(* with more_body false: close is never invoked a second time and no byte  *)
(* is written to the stream after it has been closed.                      *)
(***************************************************************************)
C3_ClosedOnceNothingAfter ==
    /\ writer.close_calls <= 1
    /\ writer.closed <=> (\E i \in BodyIdx : ~MoreBody(sent[i].event))
    /\ writer.lost = <<>>

(***************************************************************************)
(* C4.  When the client sends the content-length bytes of the body, a      *)
(* receive() call (here the first, made before the application sends       *)
(* anything) returns a request event with more_body false whose body has   *)
(* content-length bytes, however the transport delivers them.              *)
(***************************************************************************)
RequestBodyLen == Len(inflight) + Len(reader.buf) + Len(received[1].body)

C4_BodyHasContentLength ==
    (Len(received) = 1 /\ sent = <<>> /\ RequestBodyLen = content_length(scope)) =>
        /\ received[1].type = "http.request"
        /\ received[1].more_body = FALSE
        /\ Len(received[1].body) = content_length(scope)

(***************************************************************************)
(* The WebSocket part of "src/2 websocket/server.py".                      *)
(*                                                                         *)
(* A Python str is the sequence of its code points, a bytes object the     *)
(* sequence of its bytes.  bytes.decode() and str.encode() are UTF-8,      *)
(* modelled for code points below 2048 (one- and two-byte sequences);      *)
(* decode raises UnicodeDecodeError on anything else.                      *)
(***************************************************************************)
IsLead2(b) == 194 <= b /\ b <= 223

IsCont(b) == 128 <= b /\ b <= 191

RECURSIVE Utf8Valid(_)
Utf8Valid(b) ==
    IF b = <<>> THEN TRUE
    ELSE IF b[1] < 128 THEN Utf8Valid(Tail(b))
    ELSE IF IsLead2(b[1]) /\ Len(b) >= 2 /\ IsCont(b[2]) THEN Utf8Valid(Tail(Tail(b)))
    ELSE FALSE

RECURSIVE Utf8Decode(_)
Utf8Decode(b) ==
    IF b = <<>> THEN <<>>
    ELSE IF b[1] < 128 THEN <<b[1]>> \o Utf8Decode(Tail(b))
    ELSE <<(b[1] - 192) * 64 + (b[2] - 128)>> \o Utf8Decode(Tail(Tail(b)))

\* str.encode(): the encodings of the code points, in order
RECURSIVE Utf8Encode(_)
Utf8Encode(t) ==
    IF Len(t) = 0 THEN <<>>
    ELSE IF Len(t) = 1
    THEN (IF t[1] < 128 THEN <<t[1]>>
          ELSE <<192 + (t[1] \div 64), 128 + (t[1] % 64)>>)
    ELSE Utf8Encode(SubSeq(t, 1, Len(t) \div 2))
            \o Utf8Encode(SubSeq(t, (Len(t) \div 2) + 1, Len(t)))

RECURSIVE BitXor(_, _)
BitXor(a, b) ==
    IF a = 0 THEN b
    ELSE IF b = 0 THEN a
    ELSE (((a % 2) + (b % 2)) % 2) + 2 * BitXor(a \div 2, b \div 2)

\* int.to_bytes(k, "big")
RECURSIVE ToBytesBig(_, _)
ToBytesBig(n, k) ==
    IF k = 0 THEN <<>> ELSE ToBytesBig(n \div 256, k - 1) \o <<n % 256>>

\* struct.unpack("<H" / "<Q"): the bytes read as a little-endian integer.  The
\* value is only ever the size of a read, so values from ReadCap on, all of
\* them larger than any buffer, are kept as ReadCap.
ReadCap == 256 * 65536

RECURSIVE UnpackLittle(_)
UnpackLittle(b) ==
    IF b = <<>> THEN 0
    ELSE IF UnpackLittle(Tail(b)) >= ReadCap \div 256 THEN ReadCap
    ELSE b[1] + 256 * UnpackLittle(Tail(b))

\* struct.unpack(">H"): two bytes read as a big-endian integer
UnpackBigH(b) == b[1] * 256 + b[2]

(***************************************************************************)
(* read_websocket_frame.  Each reader.read(n) is asyncio's: it waits       *)
(* ("blocked") while n > 0, the buffer is empty and EOF was not fed, and   *)
(* otherwise returns at most n buffered bytes; struct.unpack raises        *)
(* struct.error when it is given fewer bytes than its format needs.        *)
(***************************************************************************)
Rd(r, n) ==
    [blocked |-> n > 0 /\ Len(r.buf) = 0 /\ ~r.eof,
     data |-> ReadData(r, n),
     r |-> ReadRest(r, n)]

NoRead(r) == [blocked |-> FALSE, data |-> <<>>, r |-> r]

\* mutant: every payload byte is unmasked with the first key byte
unmask_first_key_byte(payload, masking_key) ==
    [i \in 1..Len(payload) |-> BitXor(payload[i], masking_key[1])]

unmask(payload, masking_key) ==
    [i \in 1..Len(payload) |-> BitXor(payload[i], masking_key[((i - 1) % 4) + 1])]

\* the payload read and unmasking (lines 128-136)
frame_payload(r, fin, opcode, mask, masking_key, payload_len) ==
    LET p == Rd(r, payload_len) IN
    IF p.blocked THEN [st |-> "blocked"]
    ELSE IF mask /\ \E i \in 1..Len(p.data) : ((i - 1) % 4) + 1 > Len(masking_key)
    THEN [st |-> "IndexError", r |-> p.r]
    ELSE [st |-> "ok", r |-> p.r, fin |-> fin, opcode |-> opcode,
          payload |-> IF mask THEN unmask(p.data, masking_key) ELSE p.data]

\* the masking key read (lines 125-126)
frame_key(r, fin, opcode, mask, payload_len) ==
    LET k == IF mask THEN Rd(r, 4) ELSE NoRead(r) IN
    IF k.blocked THEN [st |-> "blocked"]
    ELSE frame_payload(k.r, fin, opcode, mask, k.data, payload_len)

\* the extended length read (lines 116-123)
frame_length(r, fin, opcode, mask, len7) ==
    LET extn == IF len7 = 126 THEN 2 ELSE IF len7 = 127 THEN 8 ELSE 0
        l == IF extn > 0 THEN Rd(r, extn) ELSE NoRead(r)
    IN
    IF l.blocked THEN [st |-> "blocked"]
    ELSE IF Len(l.data) < extn THEN [st |-> "struct.error", r |-> l.r]
    ELSE frame_key(l.r, fin, opcode, mask,
                   IF extn > 0 THEN UnpackLittle(l.data) ELSE len7)

read_websocket_frame(r) ==
    LET h == Rd(r, 2) IN
    IF h.blocked THEN [st |-> "blocked"]
    ELSE IF Len(h.data) < 2 THEN [st |-> "struct.error", r |-> h.r]
    ELSE frame_length(h.r, h.data[1] >= 128, h.data[1] % 16, h.data[2] >= 128,
                      h.data[2] % 128)

(***************************************************************************)
(* websocket_handler.receive after the connect event: what one frame does  *)
(* to fragmented_payload, and whether receive returns, raises or reads on. *)
(***************************************************************************)
EmptyDict == <<>>

Has(d, key) == key \in DOMAIN d

close_code(payload) == IF Len(payload) = 0 THEN 1005 ELSE UnpackBigH(payload)

\* the frame is the last one of its message
frame_ends_message(f) == f.fin

on_frame(fp, f) ==
    IF f.opcode = 0 THEN
        IF Has(fp, "text") THEN
            IF Utf8Valid(f.payload)
            THEN [st |-> "next", fp |-> [text |-> fp.text \o Utf8Decode(f.payload)]]
            ELSE [st |-> "raise", exc |-> "UnicodeDecodeError", fp |-> fp]
        ELSE IF Has(fp, "bytes")
            THEN [st |-> "next", fp |-> [bytes |-> fp.bytes \o f.payload]]
            ELSE [st |-> "raise", exc |-> "KeyError", fp |-> fp]
    ELSE IF f.opcode = 1 THEN
        IF Utf8Valid(f.payload)
        THEN [st |-> "next", fp |-> [text |-> Utf8Decode(f.payload)]]
        ELSE [st |-> "raise", exc |-> "UnicodeDecodeError", fp |-> fp]
    ELSE IF f.opcode = 2 THEN [st |-> "next", fp |-> [bytes |-> f.payload]]
    ELSE IF f.opcode = 8 THEN
        IF Len(f.payload) = 0 \/ Len(f.payload) = 2
        THEN [st |-> "return", fp |-> fp,
              event |-> [type |-> "websocket.disconnect", code |-> close_code(f.payload)]]
        ELSE [st |-> "raise", exc |-> "struct.error", fp |-> fp]
    ELSE [st |-> "next", fp |-> fp]

receive_event(fp) == [type |-> "websocket.receive"] @@ fp

\* receive() from the frame read on: it returns, raises, or calls itself
\* again ("again") to read the next frame; "blocked" while the stream holds
\* no byte for a read
handle_frame(fp, r, frame, frames) ==
    LET o == on_frame(fp, frame) IN
    IF o.st = "raise"
    THEN [st |-> "raise", exc |-> o.exc, fp |-> o.fp, r |-> r, frames |-> frames]
    ELSE IF o.st = "return"
    THEN [st |-> "return", event |-> o.event, fp |-> o.fp, r |-> r, frames |-> frames]
    ELSE IF frame_ends_message(frame)
    THEN [st |-> "return", event |-> receive_event(o.fp), fp |-> o.fp, r |-> r,
          frames |-> frames]
    ELSE [st |-> "again", fp |-> o.fp, r |-> r, frames |-> frames]

receive_frame(fp, r, frames) ==
    LET f == read_websocket_frame(r) IN
    IF f.st = "blocked" THEN [st |-> "blocked"]
    ELSE IF f.st # "ok"
    THEN [st |-> "raise", exc |-> f.st, fp |-> fp, r |-> f.r, frames |-> frames]
    ELSE handle_frame(fp, f.r, [fin |-> f.fin, opcode |-> f.opcode, payload |-> f.payload],
                      Append(frames, [fin |-> f.fin, opcode |-> f.opcode,
                                      payload |-> f.payload]))

\* mutant: every call hands out the connect event
first_receive_always(cs) == TRUE

\* the first call hands out the connect event
first_receive(cs) == ~cs

(***************************************************************************)
(* The frames a client may send, and their bytes on the wire.  Payloads    *)
(* are shorter than 126 bytes.                                             *)
(***************************************************************************)
MaskingKey == <<17, 34, 51, 68>>

ClientFrames ==
    [fin : BOOLEAN, opcode : {1}, payload : {<<65>>, <<195>>, <<169>>}, masked : {FALSE}]
    \cup [fin : BOOLEAN, opcode : {0}, payload : {<<65>>, <<169>>}, masked : {FALSE}]
    \cup [fin : BOOLEAN, opcode : {2}, payload : {<<65>>}, masked : {FALSE}]
    \cup [fin : {TRUE}, opcode : {1}, payload : {<<65>>}, masked : {TRUE}]
    \cup [fin : BOOLEAN, opcode : {8}, payload : {<<>>, <<3, 232>>}, masked : {FALSE}]
    \cup [fin : {TRUE}, opcode : {8}, payload : {<<3, 232, 65>>}, masked : {FALSE}]
    \cup [fin : {TRUE}, opcode : {9}, payload : {<<>>}, masked : {FALSE}]

FrameBytes(f) ==
    <<(IF f.fin THEN 128 ELSE 0) + f.opcode,
      (IF f.masked THEN 128 ELSE 0) + Len(f.payload)>>
    \o (IF f.masked THEN MaskingKey \o unmask(f.payload, MaskingKey) ELSE f.payload)

Plain(f) == [fin |-> f.fin, opcode |-> f.opcode, payload |-> f.payload]

WsScopes ==
    [type : {"websocket"}, http_version : {"1.1"},
     headers : { << <<"connection", "Upgrade">>, <<"upgrade", "websocket">>,
                    <<"sec-websocket-key", "dGhlIHNhbXBsZSBub25jZQ==">> >>,
                 << <<"connection", "Upgrade">>, <<"upgrade", "websocket">> >> }]

Idle == [active |-> FALSE, frames |-> <<>>]

WsInit ==
    /\ impl = "websocket"
    /\ scope \in WsScopes
    /\ inflight = <<>>
    /\ reader = [buf |-> <<>>, eof |-> FALSE]
    /\ writer = NewWriter
    /\ response_headers = <<>>
    /\ connect_sent = FALSE
    /\ fragmented_payload = EmptyDict
    /\ receive_call = Idle
    /\ sent = <<>>
    /\ received = <<>>
    /\ conn = InExchange
    /\ codec = NoCodec

WsReceiveInit == WsInit /\ Has(dict_headers(scope.headers), "sec-websocket-key")

\* the client sends one more frame, which the transport delivers whole;
\* inflight lists the frames sent so far
ClientSendFrame ==
    /\ Len(inflight) < MaxFrames
    /\ ~reader.eof
    /\ \E f \in ClientFrames :
        /\ inflight' = Append(inflight, Plain(f))
        /\ reader' = [reader EXCEPT !.buf = @ \o FrameBytes(f)]
    /\ UNCHANGED <<impl, scope, writer, response_headers, ws_vars, sent, received>>
    /\ UNCHANGED other_vars

\* the client closes the connection
WsClientEof ==
    /\ ~reader.eof
    /\ reader' = [reader EXCEPT !.eof = TRUE]
    /\ UNCHANGED <<impl, scope, inflight, writer, response_headers, ws_vars, sent, received>>
    /\ UNCHANGED other_vars

\* the application calls receive(): the first call returns the connect
\* event, a later one starts reading frames
WsReceive ==
    /\ ~receive_call.active
    /\ Len(received) < MaxWsReceives
    /\ IF first_receive(connect_sent)
       THEN /\ connect_sent' = TRUE
            /\ received' = Append(received,
                  [out |-> "ok", event |-> [type |-> "websocket.connect"],
                   frames |-> <<>>])
            /\ UNCHANGED receive_call
       ELSE /\ receive_call' = [active |-> TRUE, frames |-> <<>>]
            /\ UNCHANGED <<connect_sent, received>>
    /\ UNCHANGED <<impl, scope, inflight, reader, writer, response_headers,
                   fragmented_payload, sent>>
    /\ UNCHANGED other_vars

\* the receive call in progress reads one frame
WsReadFrame ==
    /\ receive_call.active
    /\ LET o == receive_frame(fragmented_payload, reader, receive_call.frames)
       IN  /\ o.st # "blocked"
           /\ fragmented_payload' = o.fp
           /\ reader' = o.r
           /\ receive_call' = IF o.st = "again"
                              THEN [active |-> TRUE, frames |-> o.frames]
                              ELSE Idle
           /\ received' =
                 IF o.st = "return"
                 THEN Append(received,
                         [out |-> "ok", event |-> o.event, frames |-> o.frames])
                 ELSE IF o.st = "raise"
                 THEN Append(received, [out |-> o.exc, frames |-> o.frames])
                 ELSE received
    /\ UNCHANGED <<impl, scope, inflight, writer, response_headers, connect_sent, sent>>
    /\ UNCHANGED other_vars

WsReceiveNext == ClientSendFrame \/ WsClientEof \/ WsReceive \/ WsReadFrame

SpecWsReceive == WsReceiveInit /\ [][WsReceiveNext]_vars

(***************************************************************************)
(* websocket_handler.send.                                                 *)
(***************************************************************************)
\* base64(sha1(key + GUID)), on the keys the model's requests carry
accept_token == [k \in {"dGhlIHNhbXBsZSBub25jZQ=="} |-> "s3pPLMBiTxaQ9kYGzzhZRbK+xOo="]

build_upgrade_response(sc) ==
    << Text("HTTP/1.1 101 Switching Protocols\r\n"),
       Text("Upgrade: websocket\r\n"),
       Text("Connection: Upgrade\r\n"),
       Text("Sec-WebSocket-Accept: "
                \o accept_token[dict_headers(sc.headers)["sec-websocket-key"]] \o "\r\n"),
       Text("\r\n") >>

frame_length_bytes(n) ==
    IF n <= 125 THEN <<n>>
    ELSE IF n < 65535 THEN <<126>> \o ToBytesBig(n, 2)
    ELSE <<127>> \o ToBytesBig(n, 8)

frame_payload_bytes(event) ==
    IF Has(event, "text") THEN Utf8Encode(event.text)
    ELSE IF Has(event, "bytes") THEN event.bytes
    ELSE <<>>

frame_first_byte(event) ==
    IF Has(event, "text") THEN <<128 + 1>>
    ELSE IF Has(event, "bytes") THEN <<128 + 2>>
    ELSE <<>>

build_websocket_frame(event) ==
    frame_first_byte(event) \o frame_length_bytes(Len(frame_payload_bytes(event)))
        \o frame_payload_bytes(event)

CloseCode(event) == IF Has(event, "code") THEN event.code ELSE 1000

after_drain(w, closes) ==
    IF DrainRaises(w) THEN [w |-> w, out |-> "ConnectionResetError"]
    ELSE IF closes THEN [w |-> WriterClose(w), out |-> "ok"]
    ELSE [w |-> w, out |-> "ok"]

send_accept(w, event) ==
    IF Has(dict_headers(scope.headers), "sec-websocket-key")
    THEN after_drain(WriterWritelines(w, build_upgrade_response(scope)), FALSE)
    ELSE [w |-> w, out |-> "KeyError"]

send_data(w, event) ==
    after_drain(WriterWrite(w, Bytes(build_websocket_frame(event))), FALSE)

send_close(w, event) ==
    after_drain(WriterWrite(WriterWrite(w, Bytes(<<128 + 8>>)),
                            Bytes(<<2>> \o ToBytesBig(CloseCode(event), 2))), TRUE)

ws_send(w, event) ==
    IF event.type = "websocket.accept" THEN send_accept(w, event)
    ELSE IF event.type = "websocket.send" THEN send_data(w, event)
    ELSE IF event.type = "websocket.close" THEN send_close(w, event)
    ELSE [w |-> w, out |-> "ok"]

\* the events an application may pass to send on a WebSocket connection
WsEvents ==
    { [type |-> "websocket.accept"],
      [type |-> "websocket.send", text |-> <<104, 233>>],
      [type |-> "websocket.send", bytes |-> <<1>>],
      [type |-> "websocket.close"],
      [type |-> "websocket.close", code |-> 1001],
      [type |-> "websocket.ping"] }

\* the application calls send(event)
WsSend ==
    /\ Len(sent) < MaxSends
    /\ \E event \in WsEvents :
        LET o == ws_send(writer, event)
        IN  /\ writer' = o.w
            /\ sent' = Append(sent, [event |-> event, out |-> o.out])
            /\ reader' = IF o.w.closed THEN [reader EXCEPT !.eof = TRUE] ELSE reader
    /\ UNCHANGED <<impl, scope, inflight, response_headers, ws_vars, received>>
    /\ UNCHANGED other_vars

WsSendNext == WsSend

SpecWsSend == WsInit /\ [][WsSendNext]_vars

(***************************************************************************)
(* Reading the WebSocket histories.                                        *)
(***************************************************************************)
Returned(i, type) == received[i].out = "ok" /\ received[i].event.type = type

RECURSIVE Payloads(_)
Payloads(frames) ==
    IF frames = <<>> THEN <<>> ELSE Head(frames).payload \o Payloads(Tail(frames))

\* frames is one fragmented message: a text or binary frame with fin = 0,
\* continuation frames with fin = 0, a last continuation frame with fin = 1
IsFragmentedMessage(frames) ==
    /\ Len(frames) >= 2
    /\ frames[1].opcode \in {1, 2} /\ ~frames[1].fin
    /\ \A i \in 2..Len(frames) : frames[i].opcode = 0
    /\ \A i \in 2..(Len(frames) - 1) : ~frames[i].fin
    /\ frames[Len(frames)].fin
    /\ frames[1].opcode = 1 => Utf8Valid(Payloads(frames))

MessageEvent(frames) ==
    IF frames[1].opcode = 1
    THEN [type |-> "websocket.receive", text |-> Utf8Decode(Payloads(frames))]
    ELSE [type |-> "websocket.receive", bytes |-> Payloads(frames)]

(***************************************************************************)
(* C5.  The first receive() call returns the connect event and reads no    *)
(* frame; every later call that returns has read at least one frame, a     *)
(* later call reads nothing only when the stream has no frame header left  *)
(* for it (struct.error), and the connect event is never returned again.   *)
(***************************************************************************)
C5_ConnectFirstAndOnce ==
    \A i \in DOMAIN received :
        IF i = 1
        THEN Returned(1, "websocket.connect") /\ received[1].frames = <<>>
        ELSE /\ ~Returned(i, "websocket.connect")
             /\ received[i].out = "ok" => Len(received[i].frames) >= 1
             /\ received[i].frames = <<>> => received[i].out = "struct.error"

C5_Witness ==
    /\ Len(received) = 3
    /\ Returned(1, "websocket.connect")
    /\ Returned(2, "websocket.receive") /\ Len(received[2].frames) = 2
    /\ Returned(3, "websocket.disconnect")

(***************************************************************************)
(* C7.  When the client sends one fragmented message (a data frame with    *)
(* fin = 0, continuation frames with fin = 0, a last continuation frame    *)
(* with fin = 1), the receive() call after the connect event returns one   *)
(* receive event of the opening frame's kind whose payload is the          *)
(* concatenation of the frames' payloads; and no receive event is          *)
(* returned on a frame with fin = 0.                                       *)
(***************************************************************************)
C7_FragmentsReassembled ==
    /\ (IsFragmentedMessage(inflight) /\ Len(received) >= 2) =>
          /\ received[2].out = "ok"
          /\ received[2].event = MessageEvent(inflight)
          /\ received[2].frames = inflight
    /\ \A i \in DOMAIN received :
          Returned(i, "websocket.receive") =>
              received[i].frames[Len(received[i].frames)].fin

(***************************************************************************)
(* C8.  A close frame makes receive() return a disconnect event whatever   *)
(* its FIN bit and whatever fragment is open: code 1005 for an empty       *)
(* payload, else the big-endian value of the first two payload bytes,      *)
(* also when a close reason follows them.                                  *)
(***************************************************************************)
C8_CloseFrameDisconnects ==
    \A i \in DOMAIN received :
        LET frames == received[i].frames
            last == frames[Len(frames)]
        IN  (frames # <<>> /\ last.opcode = 8) =>
                /\ received[i].out = "ok"
                /\ received[i].event =
                      [type |-> "websocket.disconnect",
                       code |-> IF Len(last.payload) = 0 THEN 1005
                                ELSE last.payload[1] * 256 + last.payload[2]]

(***************************************************************************)
(* C9.  Once receive() has returned a disconnect event the exchange is     *)
(* closed: no later receive() call reads a frame or returns a connect or   *)
(* receive event.                                                          *)
(***************************************************************************)
C9_NothingAfterDisconnect ==
    \A i \in DOMAIN received :
        Returned(i, "websocket.disconnect") =>
            /\ \A j \in (i + 1)..Len(received) :
                  /\ received[j].frames = <<>>
                  /\ ~Returned(j, "websocket.connect")
                  /\ ~Returned(j, "websocket.receive")
            /\ (i = Len(received) => receive_call.frames = <<>>)

(***************************************************************************)
(* Reading the wire of a WebSocket connection.                             *)
(***************************************************************************)
IsHandshakeStart(c) == IsText(c) /\ c.text = "HTTP/1.1 101 Switching Protocols\r\n"

IsDataFrame(c) == ~IsText(c) /\ c.bytes[1] \in {129, 130}

CloseSent == \E i \in DOMAIN sent : sent[i].event.type = "websocket.close"

(***************************************************************************)
(* C6.  Whatever the application sends, the 101 handshake response is      *)
(* written at most once, and no data frame is written before it.           *)
(***************************************************************************)
C6_HandshakeOnceBeforeData ==
    /\ Cardinality({i \in DOMAIN writer.wire : IsHandshakeStart(writer.wire[i])}) <= 1
    /\ \A i \in DOMAIN writer.wire :
          IsDataFrame(writer.wire[i]) =>
              \E j \in 1..(i - 1) : IsHandshakeStart(writer.wire[j])

(***************************************************************************)
(* C10.  send(Close) writes one close frame (FIN, opcode 8, length 2, the  *)
(* code big-endian, 1000 by default) and closes the stream; after it no    *)
(* byte is written to the stream and close is not invoked again.           *)
(***************************************************************************)
RECURSIVE WireBytes(_)
WireBytes(chunks) ==
    IF chunks = <<>> THEN <<>>
    ELSE (IF IsText(Head(chunks)) THEN <<>> ELSE Head(chunks).bytes)
            \o WireBytes(Tail(chunks))

C10_CloseIsTerminal ==
    /\ writer.close_calls <= 1
    /\ writer.closed <=> CloseSent
    /\ \A i \in DOMAIN sent :
          (sent[i].event.type = "websocket.close"
                /\ \A j \in 1..(i - 1) : sent[j].event.type # "websocket.close") =>
              LET tail == WireBytes(writer.wire)
                  n == Len(tail)
              IN  /\ n >= 4
                  /\ SubSeq(tail, n - 3, n)
                        = <<136, 2, CloseCode(sent[i].event) \div 256,
                            CloseCode(sent[i].event) % 256>>
    /\ writer.lost = <<>>

(***************************************************************************)
(* The connection handler: handler() and build_scope of src/server.py and  *)
(* of "src/2 websocket/server.py", from the request bytes on the stream to *)
(* the application call.  Request bytes are strings.                       *)
(*                                                                         *)
(* str.split, str.rstrip, bytes.lower and the `in` test on strings.        *)
(***************************************************************************)
RECURSIVE Find(_, _, _)
Find(s, sub, from) ==
    IF from + Len(sub) - 1 > Len(s) THEN 0
    ELSE IF SubSeq(s, from, from + Len(sub) - 1) = sub THEN from
    ELSE Find(s, sub, from + 1)

Contains(s, sub) == Find(s, sub, 1) > 0

\* s.split(sep, maxsplit); maxsplit -1 splits at every separator
RECURSIVE split(_, _, _)
split(s, sep, maxsplit) ==
    LET i == Find(s, sep, 1) IN
    IF maxsplit = 0 \/ i = 0 THEN <<s>>
    ELSE <<SubSeq(s, 1, i - 1)>>
            \o split(SubSeq(s, i + Len(sep), Len(s)), sep, maxsplit - 1)

Whitespace == {" ", "\t", "\r", "\n"}

RECURSIVE rstrip(_)
rstrip(s) ==
    IF Len(s) > 0 /\ SubSeq(s, Len(s), Len(s)) \in Whitespace
    THEN rstrip(SubSeq(s, 1, Len(s) - 1))
    ELSE s

Uppercase == "ABCDEFGHIJKLMNOPQRSTUVWXYZ"

Lowercase == "abcdefghijklmnopqrstuvwxyz"

lower_char(c) ==
    LET i == Find(Uppercase, c, 1) IN
    IF i = 0 THEN c ELSE SubSeq(Lowercase, i, i)

RECURSIVE lower(_)
lower(s) ==
    IF Len(s) = 0 THEN s
    ELSE lower_char(SubSeq(s, 1, 1)) \o lower(SubSeq(s, 2, Len(s)))

(***************************************************************************)
(* StreamReader.readline (src/server.py) and readuntil(b"\r\n")            *)
(* ("src/2 websocket/server.py").  Both wait for the separator; at EOF     *)
(* readline returns what is left, possibly b"", and readuntil raises       *)
(* IncompleteReadError.                                                    *)
(***************************************************************************)
read_to(r, sep, at_eof) ==
    LET i == Find(r.buf, sep, 1) IN
    IF i > 0
    THEN [st |-> "ok", data |-> SubSeq(r.buf, 1, i + Len(sep) - 1),
          r |-> [r EXCEPT !.buf = SubSeq(@, i + Len(sep), Len(@))]]
    ELSE IF ~r.eof THEN [st |-> "blocked"]
    ELSE IF at_eof = "rest"
    THEN [st |-> "ok", data |-> r.buf, r |-> [r EXCEPT !.buf = ""]]
    ELSE [st |-> "IncompleteReadError", r |-> [r EXCEPT !.buf = ""]]

readline(r) == read_to(r, "\n", "rest")

readuntil(r) == read_to(r, "\r\n", "raise")

read_line(r) == IF impl = "server" THEN readline(r) ELSE readuntil(r)

(***************************************************************************)
(* build_scope.  The request line is split into method, path and protocol, *)
(* the protocol into its name and the HTTP version; a header line into     *)
(* name and value at the first ": ".  Unpacking a split of the wrong       *)
(* length raises ValueError.                                               *)
(***************************************************************************)
parse_protocol(method, protocol) ==
    LET pv == split(protocol, "/", -1) IN
    IF Len(pv) # 2 THEN [st |-> "ValueError"]
    ELSE [st |-> "ok", method |-> method, http_version |-> pv[2]]

parse_request_line(line) ==
    LET parts == split(rstrip(line), " ", 3) IN
    IF Len(parts) # 3 THEN [st |-> "ValueError"]
    ELSE parse_protocol(parts[1], parts[3])

parse_header_line(line) ==
    LET kv == split(rstrip(line), ": ", 1) IN
    IF Len(rstrip(line)) = 0 THEN [st |-> "end"]
    ELSE IF Len(kv) # 2 THEN [st |-> "ValueError"]
    ELSE [st |-> "ok", header |-> <<lower(kv[1]), kv[2]>>]

\* mutant: either header is enough
is_websocket_either(headers) ==
    LET d == dict_headers(headers) IN
    \/ Has(d, "connection") /\ Contains(d["connection"], "Upgrade")
    \/ Has(d, "upgrade") /\ d["upgrade"] = "websocket"

\* "Upgrade" in dict_headers.get("connection", "") and
\* dict_headers.get("upgrade") == "websocket"
is_websocket(headers) ==
    LET d == dict_headers(headers) IN
    /\ Has(d, "connection") /\ Contains(d["connection"], "Upgrade")
    /\ Has(d, "upgrade") /\ d["upgrade"] = "websocket"

\* the scope build_scope returns once the header block has been read
build_scope(method, http_version, headers) ==
    IF impl = "websocket" /\ is_websocket(headers)
    THEN [type |-> "websocket", http_version |-> http_version, headers |-> headers]
    ELSE [type |-> "http", method |-> method, http_version |-> http_version,
          headers |-> headers]

(***************************************************************************)
(* The requests a client may send: a request line, header lines (name,     *)
(* separator, value) and the empty line; or nothing at all before it       *)
(* closes the connection.                                                  *)
(***************************************************************************)
RequestLines == {"GET / HTTP/1.1", "POST /p HTTP/1.0", "GET /"}

ConnectionHeaders ==
    { <<>>, <<<<"Connection", "Upgrade">>>>, <<<<"connection", "keep-alive, Upgrade">>>>,
      <<<<"Connection", "upgrade">>>>, <<<<"Connection", "keep-alive">>>> }

UpgradeHeaders ==
    { <<>>, <<<<"Upgrade", "websocket">>>>, <<<<"Upgrade", "WebSocket">>>>,
      <<<<"upgrade", "websockets">>>> }

KeyHeaders == { <<>>, <<<<"Sec-WebSocket-Key", "dGhlIHNhbXBsZSBub25jZQ==">>>> }

RequestHeaders ==
    { c \o u \o k : c \in ConnectionHeaders, u \in UpgradeHeaders, k \in KeyHeaders }
    \cup { <<<<"Content-Length", "1">>, <<"Host", "h">>, <<"content-length", "2">>>> }

Requests ==
    [sends : {TRUE}, line : RequestLines, headers : RequestHeaders, sep : {": ", ":"}]
    \cup [sends : {FALSE}, line : {""}, headers : {<<>>}, sep : {": "}]

RECURSIVE RawHeaders(_, _)
RawHeaders(headers, sep) ==
    IF headers = <<>> THEN ""
    ELSE Head(headers)[1] \o sep \o Head(headers)[2] \o "\r\n"
            \o RawHeaders(Tail(headers), sep)

RawRequest(req) ==
    IF req.sends THEN req.line \o "\r\n" \o RawHeaders(req.headers, req.sep) \o "\r\n"
    ELSE ""

(***************************************************************************)
(* handler(): build_scope reads the request line and the header lines,     *)
(* then the exchange selected from the scope is handed to the application. *)
(* The application calls send and returns; an exception raised by send     *)
(* goes through the application to the caller of handler().                *)
(***************************************************************************)
NewConn ==
    [pc |-> "request_line", method |-> "", http_version |-> "", headers |-> <<>>,
     app_calls |-> 0, exchange |-> "none", exc |-> "none"]

Raised(c, exc) == [c EXCEPT !.pc = "raised", !.exc = exc]

ConnInit ==
    /\ impl \in {"server", "websocket"}
    /\ inflight \in Requests
    /\ reader = [buf |-> RawRequest(inflight), eof |-> ~inflight.sends]
    /\ scope = EmptyDict
    /\ writer = NewWriter
    /\ response_headers = <<>>
    /\ connect_sent = FALSE
    /\ fragmented_payload = EmptyDict
    /\ receive_call = Idle
    /\ sent = <<>>
    /\ received = <<>>
    /\ conn = NewConn
    /\ codec = NoCodec

\* src/server.py: an empty first read makes build_scope return {}
empty_first_read(line) == impl = "server" /\ Len(line) = 0

after_request_line(c, line) ==
    LET p == parse_request_line(line) IN
    IF empty_first_read(line) THEN [c EXCEPT !.pc = "dispatch"]
    ELSE IF p.st # "ok" THEN Raised(c, p.st)
    ELSE [c EXCEPT !.pc = "headers", !.method = p.method,
                   !.http_version = p.http_version]

\* build_scope reads the request line
ReadRequestLine ==
    /\ conn.pc = "request_line"
    /\ LET l == read_line(reader) IN
        /\ l.st # "blocked"
        /\ reader' = l.r
        /\ conn' = IF l.st # "ok" THEN Raised(conn, l.st)
                   ELSE after_request_line(conn, l.data)
    /\ UNCHANGED <<impl, scope, inflight, writer, response_headers, ws_vars,
                   sent, received, codec>>

after_header_line(c, line) ==
    LET h == parse_header_line(line) IN
    IF h.st = "end" THEN [c EXCEPT !.pc = "dispatch"]
    ELSE IF h.st # "ok" THEN Raised(c, h.st)
    ELSE [c EXCEPT !.headers = Append(@, h.header)]

\* build_scope_headers reads one header line; the empty line ends the block
\* and build_scope returns the scope
ReadHeaderLine ==
    /\ conn.pc = "headers"
    /\ LET l == read_line(reader) IN
        /\ l.st # "blocked"
        /\ reader' = l.r
        /\ conn' = IF l.st # "ok" THEN Raised(conn, l.st)
                   ELSE after_header_line(conn, l.data)
        /\ scope' = IF conn'.pc = "dispatch"
                    THEN build_scope(conn.method, conn.http_version, conn.headers)
                    ELSE scope
    /\ UNCHANGED <<impl, inflight, writer, response_headers, ws_vars,
                   sent, received, codec>>

\* the exchange handler() hands to the application for a scope, "none" when
\* it does not call the application
select_exchange(sc) ==
    IF impl = "server"
    THEN (IF DOMAIN sc # {} THEN "http" ELSE "none")
    ELSE IF sc.type = "http" THEN "http"
    ELSE IF sc.type = "websocket" THEN "websocket"
    ELSE "none"

\* handler() after build_scope returned
Dispatch ==
    /\ conn.pc = "dispatch"
    /\ conn' = IF select_exchange(scope) = "none"
               THEN [conn EXCEPT !.pc = "returned"]
               ELSE [conn EXCEPT !.pc = "app", !.app_calls = @ + 1,
                                 !.exchange = select_exchange(scope)]
    /\ UNCHANGED <<impl, scope, inflight, reader, writer, response_headers, ws_vars,
                   sent, received, codec>>

app_send(rh, w, event) ==
    IF conn.exchange = "http" THEN http_send(rh, w, event)
    ELSE [rh |-> rh] @@ ws_send(w, event)

\* the application calls send(event)
AppSend ==
    /\ conn.pc = "app"
    /\ Len(sent) < MaxAppSends
    /\ \E event \in IF conn.exchange = "http" THEN HttpEvents ELSE WsEvents :
        LET r == app_send(response_headers, writer, event) IN
        /\ response_headers' = r.rh
        /\ writer' = r.w
        /\ sent' = Append(sent, [event |-> event, out |-> r.out])
        /\ conn' = IF r.out = "ok" THEN conn ELSE Raised(conn, r.out)
    /\ UNCHANGED <<impl, scope, inflight, reader, ws_vars, received, codec>>

\* the application returns, and handler() with it
AppReturn ==
    /\ conn.pc = "app"
    /\ conn' = [conn EXCEPT !.pc = "returned"]
    /\ UNCHANGED <<impl, scope, inflight, reader, writer, response_headers, ws_vars,
                   sent, received, codec>>

ConnNext == ReadRequestLine \/ ReadHeaderLine \/ Dispatch \/ AppSend \/ AppReturn

SpecConn == ConnInit /\ [][ConnNext]_vars

(***************************************************************************)
(* Reading a connection.                                                   *)
(***************************************************************************)
ClientClosedAtOnce == ~inflight.sends

Malformed ==
    /\ inflight.sends
    /\ \/ Len(split(inflight.line, " ", -1)) # 3
       \/ inflight.headers # <<>> /\ inflight.sep # ": "

HandlerEnded == conn.pc \in {"returned", "raised"}

(***************************************************************************)
(* C11.  When the client closes before sending a byte, the handler returns *)
(* without invoking the application and without raising, in src/server.py  *)
(* and in "src/2 websocket/server.py"; for a request that parses, the      *)
(* application is invoked exactly once.                                    *)
(***************************************************************************)
C11_IdleCloseReturnsQuietly ==
    /\ (ClientClosedAtOnce /\ HandlerEnded) =>
          /\ conn.pc = "returned"
          /\ conn.app_calls = 0
    /\ (~ClientClosedAtOnce /\ ~Malformed /\ conn.pc \in {"app", "returned"}) =>
          conn.app_calls = 1
    /\ conn.app_calls <= 1

(***************************************************************************)
(* C12.  When a parse or protocol error ends the handler (a malformed      *)
(* request line, a header line without ": ", Accept without                *)
(* sec-websocket-key, an unknown status code), the error reaches the       *)
(* caller of the handler and the stream has been closed.                   *)
(***************************************************************************)
C12_ErrorsCloseTheStream ==
    /\ Malformed => conn.pc \in {"request_line", "headers", "raised"}
    /\ conn.pc = "raised" => (conn.exc # "none" /\ writer.closed)

(***************************************************************************)
(* The frame codec alone: build_websocket_frame applied to a message and   *)
(* read_websocket_frame applied to the bytes it gave; and                  *)
(* read_websocket_frame applied to a masked frame a client built.  The     *)
(* whole frame is in the reader's buffer when it is read.                  *)
(***************************************************************************)
Filled(n, b) == [i \in 1..n |-> b]

BytesLengths == {0, 1, 125, 126, 127, 256, 65535, 65536}

TextLengths == {0, 1, 125, 126, 127, 256}

\* a message: n bytes, or n code points, all of one value
Messages ==
    [kind : {"bytes"}, n : BytesLengths, fill : {1}]
    \cup [kind : {"text"}, n : TextLengths, fill : {65, 233}]

\* the event the application passes to send for a message
send_event(m) ==
    IF m.kind = "text"
    THEN [type |-> "websocket.send", text |-> Filled(m.n, m.fill)]
    ELSE [type |-> "websocket.send", bytes |-> Filled(m.n, m.fill)]

\* a client's masking of a payload (RFC 6455, 5.3)
client_mask(payload, key) ==
    [i \in 1..Len(payload) |-> BitXor(payload[i], key[((i - 1) % 4) + 1])]

MaskedFrameBytes(f) ==
    <<(IF f.fin THEN 128 ELSE 0) + f.opcode, 128 + Len(f.payload)>>
        \o f.key \o client_mask(f.payload, f.key)

UnmaskedFrameBytes(f) ==
    <<(IF f.fin THEN 128 ELSE 0) + f.opcode, Len(f.payload)>> \o f.payload

MaskingKeys == {<<0, 0, 0, 0>>, <<17, 34, 51, 68>>, <<255, 0, 1, 128>>, <<1, 1, 1, 1>>}

MaskedPayloads ==
    {<<>>, <<65>>, <<0, 255, 128, 7, 200>>, [i \in 1..125 |-> (i * 7) % 256]}

MaskedFrames ==
    [fin : BOOLEAN, opcode : {1, 2}, payload : MaskedPayloads, key : MaskingKeys]

\* bytes that follow the frame on the stream
FollowingBytes == {<<>>, <<129, 0>>}

CodecInit ==
    /\ impl = "websocket"
    /\ scope = EmptyDict
    /\ inflight = <<>>
    /\ reader = [buf |-> <<>>, eof |-> FALSE]
    /\ writer = NewWriter
    /\ response_headers = <<>>
    /\ connect_sent = FALSE
    /\ fragmented_payload = EmptyDict
    /\ receive_call = Idle
    /\ sent = <<>>
    /\ received = <<>>
    /\ conn = InExchange
    /\ \/ \E m \in Messages : codec = [pc |-> "message", message |-> m]
       \/ \E f \in MaskedFrames, x \in FollowingBytes :
             codec = [pc |-> "client", frame |-> f, extra |-> x]

\* build_websocket_frame(event); the frame reaches a reader
BuildFrame ==
    /\ codec.pc = "message"
    /\ codec' = [codec EXCEPT !.pc = "built"]
    /\ reader' = [reader EXCEPT !.buf = build_websocket_frame(send_event(codec.message))]
    /\ UNCHANGED <<impl, scope, inflight, writer, response_headers, ws_vars,
                   sent, received, conn>>

\* read_websocket_frame on the bytes of the built frame
ReadBuiltFrame ==
    /\ codec.pc = "built"
    /\ codec' = [pc |-> "read", message |-> codec.message,
                 result |-> read_websocket_frame(reader)]
    /\ reader' = IF codec'.result.st = "blocked" THEN reader ELSE codec'.result.r
    /\ UNCHANGED <<impl, scope, inflight, writer, response_headers, ws_vars,
                   sent, received, conn>>

\* the client sends a masked frame and the bytes after it
ClientSendMasked ==
    /\ codec.pc = "client"
    /\ codec' = [codec EXCEPT !.pc = "sent"]
    /\ reader' = [reader EXCEPT !.buf = MaskedFrameBytes(codec.frame) \o codec.extra]
    /\ UNCHANGED <<impl, scope, inflight, writer, response_headers, ws_vars,
                   sent, received, conn>>

\* read_websocket_frame on the masked frame
ReadMaskedFrame ==
    /\ codec.pc = "sent"
    /\ codec' = [pc |-> "decoded", frame |-> codec.frame, extra |-> codec.extra,
                 result |-> read_websocket_frame(reader)]
    /\ reader' = IF codec'.result.st = "blocked" THEN reader ELSE codec'.result.r
    /\ UNCHANGED <<impl, scope, inflight, writer, response_headers, ws_vars,
                   sent, received, conn>>

CodecNext == BuildFrame \/ ReadBuiltFrame \/ ClientSendMasked \/ ReadMaskedFrame

SpecCodec == CodecInit /\ [][CodecNext]_vars

(***************************************************************************)
(* Reading the codec's results.                                            *)
(***************************************************************************)
MessageOpcode(m) == IF m.kind = "text" THEN 1 ELSE 2

MessagePayload(m) ==
    IF m.kind = "text" THEN Utf8Encode(Filled(m.n, m.fill)) ELSE Filled(m.n, m.fill)

\* the length field of RFC 6455: one byte up to 125, marker 126 and two
\* bytes below 65536, marker 127 and eight bytes from there on
LengthField(n) ==
    IF n <= 125 THEN <<n>>
    ELSE IF n < 65536 THEN <<126, n \div 256, n % 256>>
    ELSE <<127>> \o ToBytesBig(n, 8)

(***************************************************************************)
(* C13.  Frame round trip: reading the bytes build_websocket_frame gave    *)
(* for a text or binary message yields fin = true, the opcode of the       *)
(* message's kind and the message's payload.                               *)
(***************************************************************************)
C13_FrameRoundTrip ==
    codec.pc = "read" =>
        /\ codec.result.st = "ok"
        /\ codec.result.fin
        /\ codec.result.opcode = MessageOpcode(codec.message)
        /\ codec.result.payload = MessagePayload(codec.message)

(***************************************************************************)
(* C16.  build_websocket_frame gives a first byte with FIN set and opcode  *)
(* 1 for text, 2 for binary, then the payload length n as one byte when    *)
(* n <= 125, as 126 and two big-endian bytes when 126 <= n < 65536, as 127 *)
(* and eight big-endian bytes when n >= 65536, with the mask bit clear,    *)
(* then the payload.                                                       *)
(***************************************************************************)
C16_LengthEncoding ==
    codec.pc = "built" =>
        /\ reader.buf
              = <<128 + MessageOpcode(codec.message)>>
                    \o LengthField(Len(MessagePayload(codec.message)))
                    \o MessagePayload(codec.message)
        /\ reader.buf[2] < 128

C14_ExactlyOneOfTextBytes ==
    \A i \in DOMAIN received :
        Returned(i, "websocket.receive") =>
            (Has(received[i].event, "text") # Has(received[i].event, "bytes"))

(***************************************************************************)
(* C15.  The accumulator is reset when a receive event is returned: a      *)
(* receive() call whose first frame is a continuation frame, made before   *)
(* any data frame arrived or right after a call that returned a receive    *)
(* event, fails, and the payload is not appended to the delivered message. *)
(***************************************************************************)
NoFragmentOpenAt(i) == i = 2 \/ Returned(i - 1, "websocket.receive")

C15_ContinuationWithoutFragmentFails ==
    \A i \in 2..Len(received) :
        (/\ received[i].frames # <<>>
         /\ received[i].frames[1].opcode = 0
         /\ NoFragmentOpenAt(i)) => received[i].out # "ok"

(***************************************************************************)
(* C17.  build_scope of "src/2 websocket/server.py" gives type websocket   *)
(* exactly when the connection header's value contains "Upgrade" and the   *)
(* upgrade header's value is "websocket"; otherwise type http, with the    *)
(* method.  handler() picks the exchange from the type and invokes the     *)
(* application once.                                                       *)
(***************************************************************************)
RequestHeaderValues(name) ==
    {inflight.headers[i][2] : i \in {j \in DOMAIN inflight.headers :
                                        lower(inflight.headers[j][1]) = name}}

AsksForWebSocket ==
    /\ \E v \in RequestHeaderValues("connection") :
          \E k \in 1..Len(v) : k + 6 <= Len(v) /\ SubSeq(v, k, k + 6) = "Upgrade"
    /\ RequestHeaderValues("upgrade") = {"websocket"}

ScopeBuilt == DOMAIN scope # {}

C17_ScopeTypeSelectsExchange ==
    (impl = "websocket" /\ ScopeBuilt) =>
        /\ scope.type = "websocket" <=> AsksForWebSocket
        /\ scope.type # "websocket" =>
              /\ scope.type = "http"
              /\ Has(scope, "method")
              /\ scope.method = split(inflight.line, " ", -1)[1]
        /\ conn.pc # "dispatch" =>
              /\ conn.exchange = scope.type
              /\ conn.app_calls = 1

C17_Witness ==
    /\ impl = "websocket"
    /\ conn.pc = "app"
    /\ scope.type = "websocket"
    /\ conn.exchange = "websocket"
    /\ RequestHeaderValues("connection") = {"keep-alive, Upgrade"}
    /\ conn.app_calls = 1

(***************************************************************************)
(* C18.  With the same header name more than once, header lookups use the  *)
(* first occurrence: receive() reads the number of body bytes the first    *)
(* content-length header gives, in both source files.                      *)
(***************************************************************************)
FirstContentLength ==
    LET hits == {i \in DOMAIN scope.headers : scope.headers[i][1] = "content-length"}
    IN  IF hits = {} THEN 0
        ELSE IntOf[scope.headers[CHOOSE i \in hits : \A j \in hits : i <= j][2]]

C18_FirstOccurrenceWins ==
    \A i \in DOMAIN received : Len(received[i].body) <= FirstContentLength

(***************************************************************************)
(* C20.  Whatever is sent, the first bytes on the wire are a status line   *)
(* and header block: no body byte is written before them.                  *)
(***************************************************************************)
C20_StatusLineBeforeBody ==
    writer.wire # <<>> =>
        /\ StartsBefore(FirstBody) # {}
        /\ SubSeq(WireText(writer.wire), 1, Len(BufferedBefore(FirstBody)))
              = BufferedBefore(FirstBody)

====
